---- MODULE Spec2Model ----
(***************************************************************************)
(* A model of wxr-to-pdf.py: the WXR export parser (parse_wxr), the        *)
(* content normaliser (replace_shortcode_captions, replace_urls,           *)
(* convert_to_paragraphs, preprocess_comments) and the document assembler  *)
(* (create_pdf).                                                           *)
(*                                                                         *)
(* Text is a sequence of tokens.  A token is either one of the literal     *)
(* pieces the program's regular expressions look for or emit, or a piece   *)
(* of plain text that contains none of them; no literal piece arises from  *)
(* the juxtaposition of two tokens, so matching on tokens is matching on   *)
(* the characters.                                                         *)
(***************************************************************************)
EXTENDS Naturals, Sequences, FiniteSets, TLC

\* ---------------------------------------------------------------- bounds
MaxItems == 3
MaxExtraPages == 1
MaxComments == 3
MaxPieces == 6
MaxUrlText == 6
MaxText == 6

\* ------------------------------------------------------ program constants
TocPages == 3
TocTitleMax == 60
TocLineWidth == 70

VARIABLES
    \* parse_wxr / create_pdf
    pc, error, items, posts, pages, dates, date_range, diag,
    page, links, toc, sections, idx, stages, toc_lines, written,
    \* one item's comment loop and preprocess_comments
    cpc, cnodes, comments, chtml,
    \* the pure text rewrites
    fpc, fin, furl, fout, fout2

pipeVars == <<pc, error, items, posts, pages, dates, date_range, diag,
              page, links, toc, sections, idx, stages, toc_lines, written>>
cmtVars == <<cpc, cnodes, comments, chtml>>
fnVars == <<fpc, fin, furl, fout, fout2>>
vars == <<pipeVars, cmtVars, fnVars>>

\* ------------------------------------------------------------ text helpers
Min(a, b) == IF a < b THEN a ELSE b

IsSpace(t) == t \in {" ", "\n"}

\* the smallest index >= from holding tok, 0 when there is none
FirstAt(s, tok, from) ==
    LET hits == {i \in from..Len(s) : s[i] = tok}
    IN  IF from = 0 \/ hits = {} THEN 0
        ELSE CHOOSE i \in hits : \A j \in hits : i <= j

RECURSIVE lstrip(_)
lstrip(s) ==
    IF s # <<>> /\ IsSpace(Head(s)) THEN lstrip(Tail(s)) ELSE s

RECURSIVE rstrip(_)
rstrip(s) ==
    IF s # <<>> /\ IsSpace(s[Len(s)]) THEN rstrip(SubSeq(s, 1, Len(s) - 1)) ELSE s

\* str.strip()
strip(s) == rstrip(lstrip(s))

RECURSIVE Flatten(_)
Flatten(ss) ==
    IF ss = <<>> THEN <<>> ELSE Head(ss) \o Flatten(Tail(ss))

\* true when pat occurs in s at index i
OccursAt(s, pat, i) ==
    /\ i >= 1
    /\ i + Len(pat) - 1 <= Len(s)
    /\ SubSeq(s, i, i + Len(pat) - 1) = pat

Contains(s, pat) == \E i \in 1..Len(s) : OccursAt(s, pat, i)

\* ------------------------------------------- replace_shortcode_captions
CapOpen == "[caption id=\""
CapAlign == "\" align=\""
CapWidth == "\" width=\""
CapEnd == "\"]"
CapClose == "[/caption]"
ImgOpen == "<img"
ImgClose == "/>"

\* pattern.match at index i: the lazy groups stop at the first literal that follows
CaptionMatch(s, i) ==
    LET a == IF i <= Len(s) /\ s[i] = CapOpen THEN FirstAt(s, CapAlign, i + 1) ELSE 0
        w == IF a = 0 THEN 0 ELSE FirstAt(s, CapWidth, a + 1)
        c == IF w = 0 THEN 0 ELSE FirstAt(s, CapEnd, w + 1)
        e == IF c = 0 THEN 0 ELSE FirstAt(s, CapClose, c + 1)
    IN  [ok |-> e # 0, start |-> i, a |-> a, w |-> w, c |-> c, stop |-> e]

\* the nested replace_caption(match)
replace_caption(s, m) ==
    LET id_attr == SubSeq(s, m.start + 1, m.a - 1)
        align == SubSeq(s, m.a + 1, m.w - 1)
        width == SubSeq(s, m.w + 1, m.c - 1)
        inner_content == strip(SubSeq(s, m.c + 1, m.stop - 1))
        k == IF inner_content # <<>> /\ inner_content[1] = ImgOpen
             THEN FirstAt(inner_content, ImgClose, 2) ELSE 0
        img_tag == strip(SubSeq(inner_content, 1, k))
        caption_text == strip(SubSeq(inner_content, k + 1, Len(inner_content)))
    IN  IF k # 0
        THEN <<"<figure id=\"">> \o id_attr \o <<"\" class=\"">> \o align
               \o <<"\" style=\"width:">> \o width \o <<"px\">", "\n", " ", " ">>
               \o img_tag \o <<"\n", " ", " ", "<figcaption>">> \o caption_text
               \o <<"</figcaption>", "\n", "</figure>", "\n">>
        ELSE SubSeq(s, m.start, m.stop)

\* pattern.sub(replace_caption, content) from index i on: leftmost, non-overlapping
RECURSIVE CaptionSub(_, _)
CaptionSub(s, i) ==
    IF i > Len(s) THEN <<>>
    ELSE LET m == CaptionMatch(s, i)
         IN  IF m.ok THEN replace_caption(s, m) \o CaptionSub(s, m.stop + 1)
             ELSE <<s[i]>> \o CaptionSub(s, i + 1)

\* pattern.sub(replace_caption, content, count=1): only the first block is rewritten
replace_first_caption_only(content) ==
    LET starts == {i \in 1..Len(content) : CaptionMatch(content, i).ok}
        i == IF starts = {} THEN 0 ELSE CHOOSE x \in starts : \A y \in starts : x <= y
        m == CaptionMatch(content, i)
    IN  IF i = 0 THEN content
        ELSE SubSeq(content, 1, i - 1) \o replace_caption(content, m)
               \o SubSeq(content, m.stop + 1, Len(content))

replace_shortcode_captions(content) == CaptionSub(content, 1)

\* ------------------------------------------------------------ replace_urls
Uploads == "wp-content/uploads/"
LocalContent == <<"./content", "/">>

\* re.sub(escaped_url/?wp-content/uploads/, './content/', content) from index i on
RECURSIVE UrlSub(_, _, _)
UrlSub(s, url, i) ==
    IF i > Len(s) THEN <<>>
    ELSE LET j == i + Len(url)
         IN  IF OccursAt(s, url \o <<"/", Uploads>>, i)
             THEN LocalContent \o UrlSub(s, url, j + 2)
             ELSE IF OccursAt(s, url \o <<Uploads>>, i)
             THEN LocalContent \o UrlSub(s, url, j + 1)
             ELSE <<s[i]>> \o UrlSub(s, url, i + 1)

\* the print of line 226: a line is printed when the site URL still occurs in the
\* rewritten text (the text of the line is not modelled)
found_url(modified_content, url) ==
    IF Contains(modified_content, url) THEN <<"Found URL">> ELSE <<>>

\* re.sub(..., count=1): only the first occurrence is replaced
replace_first_url_only(content, url) ==
    LET hit(i) == \/ OccursAt(content, url \o <<"/", Uploads>>, i)
                  \/ OccursAt(content, url \o <<Uploads>>, i)
        starts == {i \in 1..Len(content) : hit(i)}
        i == IF starts = {} THEN 0 ELSE CHOOSE x \in starts : \A y \in starts : x <= y
        n == IF OccursAt(content, url \o <<"/", Uploads>>, i)
             THEN Len(url) + 2 ELSE Len(url) + 1
    IN  IF i = 0 THEN content
        ELSE SubSeq(content, 1, i - 1) \o LocalContent
               \o SubSeq(content, i + n, Len(content))

replace_urls(content, url) == UrlSub(content, url, 1)

\* ---------------------------------------------------- convert_to_paragraphs
\* text.split('\n\n')
RECURSIVE split_blank_lines(_)
split_blank_lines(text) ==
    LET cuts == {i \in 1..(Len(text) - 1) : text[i] = "\n" /\ text[i + 1] = "\n"}
        i == CHOOSE x \in cuts : \A y \in cuts : x <= y
    IN  IF cuts = {} THEN <<text>>
        ELSE <<SubSeq(text, 1, i - 1)>> \o split_blank_lines(SubSeq(text, i + 2, Len(text)))

\* '\n'.join(paragraphs)
RECURSIVE join_lines(_)
join_lines(ps) ==
    IF Len(ps) = 0 THEN <<>>
    ELSE IF Len(ps) = 1 THEN ps[1]
    ELSE ps[1] \o <<"\n">> \o join_lines(Tail(ps))

\* the paragraphs wrapped without being stripped
convert_to_paragraphs_unstripped(text) ==
    LET paragraphs == split_blank_lines(text)
    IN  join_lines([i \in 1..Len(paragraphs) |->
                        <<"<p>">> \o paragraphs[i] \o <<"</p>">>])

convert_to_paragraphs(text) ==
    LET paragraphs == split_blank_lines(text)
    IN  join_lines([i \in 1..Len(paragraphs) |->
                        <<"<p>">> \o strip(paragraphs[i]) \o <<"</p>">>])

\* preprocess_content(content, url)
preprocess_content(content, url) ==
    convert_to_paragraphs(replace_urls(replace_shortcode_captions(content), url))

\* ------------------------------------------- parse_wxr: the comment loop
\* datetime.strptime(comment_date, '%Y-%m-%d %H:%M:%S'), .astimezone(Los Angeles),
\* .strftime("%A, %B %-d, %Y @ %-I:%M %p"), for the dates the model draws (the
\* naive time read in a process whose local zone is UTC); any other text makes
\* strptime raise
CommentDates == [d \in {"2024-01-05 09:30:00"} |-> "Friday, January 5, 2024 @ 1:30 AM"]

\* a comment whose approval is anything but the literal '0' is kept
parse_comment_keeps_not_rejected(node) ==
    IF ~node.complete THEN [raised |-> "AttributeError", keep |-> FALSE]
    ELSE IF node.date \notin DOMAIN CommentDates
    THEN [raised |-> "ValueError", keep |-> FALSE]
    ELSE [raised |-> "", keep |-> node.approved # "0",
          data |-> [author |-> node.author, content |-> node.content,
                    date |-> CommentDates[node.date]]]

\* lines 187-203: one pass of the loop over an item's comment elements
parse_comment(node) ==
    IF ~node.complete THEN [raised |-> "AttributeError", keep |-> FALSE]
    ELSE IF node.date \notin DOMAIN CommentDates
    THEN [raised |-> "ValueError", keep |-> FALSE]
    ELSE [raised |-> "", keep |-> node.approved = "1",
          data |-> [author |-> node.author, content |-> node.content,
                    date |-> CommentDates[node.date]]]

\* lines 186-203: the whole loop; it stops at the first comment that raises
RECURSIVE parse_comments(_)
parse_comments(nodes) ==
    IF nodes = <<>> THEN [raised |-> "", comments |-> <<>>]
    ELSE LET r == parse_comment(Head(nodes))
             rest == parse_comments(Tail(nodes))
         IN  IF r.raised # "" THEN [raised |-> r.raised, comments |-> <<>>]
             ELSE IF rest.raised # "" THEN rest
             ELSE [raised |-> "",
                   comments |-> (IF r.keep THEN <<r.data>> ELSE <<>>) \o rest.comments]

\* ------------------------------------------------------ preprocess_comments
CommentOpen == "<div class=\"comment\"><p><strong>"
FacebookLike == "liked this on Facebook."
HtmlTags == {"<b>", "</b>"}

\* re.sub("<[^<]+?>", "", str(content))
strip_tags(content) == SelectSeq(content, LAMBDA t : t \notin HtmlTags)

render_comment(comment) ==
    IF \E i \in 1..Len(comment.content) : comment.content[i] = FacebookLike
    THEN <<CommentOpen, comment.author,
           "</strong> give this a <strong>LIKE</strong> on Facebook!</p></div>">>
    ELSE <<CommentOpen, comment.author, "</strong> on ", comment.date, ":</p>", "<p>">>
           \o strip_tags(comment.content) \o <<"</p></div>">>

\* the header is returned whether or not there are comments
preprocess_comments_always_header(cs) ==
    <<"<h3>Comments (", ToString(Len(cs)), ")</h3>">>
        \o Flatten([i \in 1..Len(cs) |-> render_comment(cs[i])])

preprocess_comments(cs) ==
    IF Len(cs) # 0
    THEN <<"<h3>Comments (", ToString(Len(cs)), ")</h3>">>
           \o Flatten([i \in 1..Len(cs) |-> render_comment(cs[i])])
    ELSE <<>>

\* ------------------------------------------------------- parse_wxr: the items
\* find(...) returned None: the element is missing
NoElement == "<none>"

\* lines 142-156: why the loop passes over an item, or "keep"; drafts are kept
skip_reason_keeps_unpublished(node) ==
    IF node.post_type = NoElement \/ node.status = NoElement THEN "missing"
    ELSE IF node.post_type \notin {"post", "page"} THEN "type"
    ELSE "keep"

\* lines 142-156: why the loop passes over an item, or "keep"
skip_reason(node) ==
    IF node.post_type = NoElement \/ node.status = NoElement THEN "missing"
    ELSE IF node.post_type \notin {"post", "page"} THEN "type"
    ELSE IF node.status # "publish" THEN "status"
    ELSE "keep"

\* a notice for every item the loop passes over
prints_notice_for_every_skip(reason) == reason # "keep"

\* lines 153-156: the only skip that prints "Unpublished item skipped: ..."
prints_notice(reason) == reason = "status"

\* datetime.strptime(pub_date_text, '%a, %d %b %Y %H:%M:%S %z') converted to the
\* blog's zone (America/Los_Angeles), with the two renderings the program makes
\* of it, for the dates the model draws; any other text makes strptime raise
ItemDates ==
    [d \in {"Fri, 05 Jan 2024 09:30:00 +0000"} |->
        [byline |-> "Friday, January 5, 2024 @ 1:30 AM", day |-> "January 5, 2024"]]

\* lines 165-172
parse_pub_date(pubDate) ==
    IF pubDate = NoElement THEN [raised |-> "", pub_date |-> NoElement, dated |-> FALSE]
    ELSE IF pubDate \notin DOMAIN ItemDates
    THEN [raised |-> "ValueError: strptime", pub_date |-> NoElement, dated |-> FALSE]
    ELSE [raised |-> "", pub_date |-> pubDate, dated |-> TRUE]

\* line 210 (every date the model draws is the same day, so min and max are it)
format_date_range(ds) ==
    IF ds = <<>> THEN <<"N/A">>
    ELSE <<ItemDates[ds[1]].day, " - ", ItemDates[ds[Len(ds)]].day>>

\* -------------------------------------------------------------- class PDF
\* the entry is registered with the number of the page before the one started
add_toc_entry_previous_page(entries, title, page_number, link) ==
    Append(entries, [title |-> title, page_number |-> page_number - 1, link |-> link])

\* PDF.add_toc_entry
add_toc_entry(entries, title, page_number, link) ==
    Append(entries, [title |-> title, page_number |-> page_number, link |-> link])

\* PDF.generate_toc: one line per entry, title[:60], the dots, the page number
generate_toc(entries) ==
    [i \in 1..Len(entries) |->
        LET toc_text == SubSeq(entries[i].title, 1, Min(TocTitleMax, Len(entries[i].title)))
        IN  [text |-> toc_text, dots |-> TocLineWidth - Len(toc_text),
             page_number |-> entries[i].page_number, link |-> entries[i].link]]

\* the title add_content registers for an item
toc_title(title, item_type) ==
    IF item_type = "page" THEN <<"P", "a", "g", "e", ":", " ">> \o title ELSE title

\* ---------------------------------------------------------------- idle parts
PipeIdle ==
    /\ pc = "idle" /\ error = "" /\ items = <<>> /\ posts = <<>> /\ pages = <<>>
    /\ dates = <<>> /\ date_range = <<>> /\ diag = <<>> /\ page = 0 /\ links = 0
    /\ toc = <<>> /\ sections = <<>> /\ idx = 1 /\ stages = <<>> /\ toc_lines = <<>>
    /\ written = FALSE

CmtIdle == cpc = "idle" /\ cnodes = <<>> /\ comments = <<>> /\ chtml = <<>>

FnIdle == fpc = "idle" /\ fin = <<>> /\ furl = <<>> /\ fout = <<>> /\ fout2 = <<>>

\* ------------------------------------ content strings for the caption rewrite
CaptionPieces ==
    { <<CapOpen, "i", CapAlign, CapWidth, "9", CapEnd>>,
      <<ImgOpen, ImgClose>>,
      <<CapClose>>,
      <<"t">>,
      <<"\n">> }

\* every concatenation of at most n pieces
TextsOf(pieces, n) ==
    {Flatten(ps) : ps \in UNION {[1..k -> pieces] : k \in 0..n}}

CaptionInit ==
    /\ PipeIdle /\ CmtIdle
    /\ fpc = "input" /\ fin \in TextsOf(CaptionPieces, MaxPieces)
    /\ furl = <<>> /\ fout = <<>> /\ fout2 = <<>>

\* preprocess_content's first step: content = replace_shortcode_captions(content)
RewriteCaptions ==
    /\ fpc = "input"
    /\ fout' = replace_shortcode_captions(fin)
    /\ fpc' = "once"
    /\ UNCHANGED <<fin, furl, fout2, pipeVars, cmtVars>>

\* the rewrite applied to its own result
RewriteCaptionsAgain ==
    /\ fpc = "once"
    /\ fout2' = replace_shortcode_captions(fout)
    /\ fpc' = "twice"
    /\ UNCHANGED <<fin, furl, fout, pipeVars, cmtVars>>

CaptionNext == RewriteCaptions \/ RewriteCaptionsAgain

SpecCaption == CaptionInit /\ [][CaptionNext]_vars

\* the blocks pattern.sub rewrites, as the matches found from index i on
RECURSIVE CaptionMatches(_, _)
CaptionMatches(s, i) ==
    IF i > Len(s) THEN <<>>
    ELSE LET m == CaptionMatch(s, i)
         IN  IF m.ok THEN <<m>> \o CaptionMatches(s, m.stop + 1)
             ELSE CaptionMatches(s, i + 1)

HasCaptionPattern(s) == \E i \in 1..Len(s) : CaptionMatch(s, i).ok

\* no caption opening inside a matched block after the block's own opening
NoNestedCaption(s) ==
    LET ms == CaptionMatches(s, 1)
    IN  \A n \in 1..Len(ms) :
            \A j \in (ms[n].start + 1)..ms[n].stop : s[j] # CapOpen

\* C5 (as stated): rewriting is idempotent for every content string, nested
\* caption blocks included, and leaves content without the pattern unchanged.
C5_IdempotentAll ==
    /\ fpc = "twice" => fout2 = fout
    /\ (fpc = "once" /\ ~HasCaptionPattern(fin)) => fout = fin

\* C5 (amended): rewriting is idempotent for every content string in which no
\* caption opening lies inside a matched caption block (blocks that are not
\* nested, several in a row allowed), and leaves content without the pattern
\* unchanged.
C5_IdempotentFlat ==
    /\ (fpc = "twice" /\ NoNestedCaption(fin)) => fout2 = fout
    /\ (fpc \in {"once", "twice"} /\ ~HasCaptionPattern(fin)) => fout = fin

\* two blocks in a row were rewritten to figures and rewritten again
C5_Witness ==
    /\ fpc = "twice"
    /\ NoNestedCaption(fin)
    /\ Len(CaptionMatches(fin, 1)) = 2
    /\ Len(SelectSeq(fout, LAMBDA t : t = "<figcaption>")) = 2
    /\ fout # fin

\* =========================================================== replace_urls
SiteUrls == { <<"https://example.com">>, <<"https://example.com", "/">> }

UrlTokens == {"https://example.com", "/", Uploads, "2020/01/img", ".jpg"}

\* every sequence over alphabet of length at most n
SeqsUpTo(alphabet, n) == UNION {[1..k -> alphabet] : k \in 0..n}

UrlInit ==
    /\ PipeIdle /\ CmtIdle
    /\ fpc = "input" /\ fin \in SeqsUpTo(UrlTokens, MaxUrlText)
    /\ furl \in SiteUrls /\ fout = <<>> /\ fout2 = <<>>

\* preprocess_content's second step: content = replace_urls(content, url)
LocalizeUrls ==
    /\ fpc = "input"
    /\ fout' = replace_urls(fin, furl)
    /\ fout2' = found_url(replace_urls(fin, furl), furl)
    /\ fpc' = "done"
    /\ UNCHANGED <<fin, furl, pipeVars, cmtVars>>

UrlNext == LocalizeUrls

SpecUrls == UrlInit /\ [][UrlNext]_vars

\* the absolute prefix u + "/wp-content/uploads/"
UploadsPrefix(url) == url \o <<"/", Uploads>>

\* an occurrence starts at i (the slash after the site URL may be missing)
UrlOccurrence(s, url, i) ==
    OccursAt(s, UploadsPrefix(url), i) \/ OccursAt(s, url \o <<Uploads>>, i)

UrlOccurrenceLen(s, url, i) ==
    IF OccursAt(s, UploadsPrefix(url), i) THEN Len(url) + 2 ELSE Len(url) + 1

\* the input with each occurrence replaced by ./content/ and every token outside
\* the occurrences kept, stated position by position
UrlExpected(s, url) ==
    LET inside(j) == \E i \in 1..(j - 1) :
                         UrlOccurrence(s, url, i) /\ j < i + UrlOccurrenceLen(s, url, i)
        piece(j) == IF UrlOccurrence(s, url, j) THEN LocalContent
                    ELSE IF inside(j) THEN <<>> ELSE <<s[j]>>
    IN  Flatten([j \in 1..Len(s) |-> piece(j)])

\* C6: the output of replace_urls holds no occurrence of u + "/wp-content/uploads/";
\* each occurrence of the input is replaced by "./content/", what follows it is
\* kept, and the text outside the occurrences is unchanged; the spec's example
\* u/wp-content/uploads/2020/01/img.jpg becomes ./content/2020/01/img.jpg.
C6_UrlsLocalized ==
    fpc = "done" =>
        /\ ~Contains(fout, UploadsPrefix(furl))
        /\ fout = UrlExpected(fin, furl)
        /\ (fin = furl \o <<"/", Uploads, "2020/01/img", ".jpg">>
                => fout = <<"./content", "/", "2020/01/img", ".jpg">>)

\* two occurrences with text between and after them were replaced
C6_Witness ==
    /\ fpc = "done"
    /\ fin = furl \o <<"/", Uploads, "2020/01/img">> \o furl \o <<Uploads>>
    /\ fout = <<"./content", "/", "2020/01/img", "./content", "/">>

\* ================================================== convert_to_paragraphs
ParaChars == {"A", "B", "\n", " "}

ParaInit ==
    /\ PipeIdle /\ CmtIdle
    /\ fpc = "input" /\ fin \in SeqsUpTo(ParaChars, MaxText)
    /\ furl = <<>> /\ fout = <<>> /\ fout2 = <<>>

\* preprocess_content's third step: content = convert_to_paragraphs(content)
WrapParagraphs ==
    /\ fpc = "input"
    /\ fout' = convert_to_paragraphs(fin)
    /\ fpc' = "done"
    /\ UNCHANGED <<fin, furl, fout2, pipeVars, cmtVars>>

ParaNext == WrapParagraphs

SpecPara == ParaInit /\ [][ParaNext]_vars

\* the n-th smallest element of a set of numbers
NthOf(S, n) == CHOOSE i \in S : Cardinality({j \in S : j < i}) = n - 1

\* where the blank-line boundaries of s start: in a run of newlines, every second
\* position counted from the run's first newline
BlankLineStarts(s) ==
    LET runStart(i) == CHOOSE j \in 1..i :
                           /\ \A k \in j..i : s[k] = "\n"
                           /\ (j = 1 \/ s[j - 1] # "\n")
    IN  {i \in 1..(Len(s) - 1) :
            /\ s[i] = "\n" /\ s[i + 1] = "\n"
            /\ (i - runStart(i)) % 2 = 0}

\* the n-th segment between the blank-line boundaries
SegmentOf(s, n) ==
    LET B == BlankLineStarts(s)
        from == IF n = 1 THEN 1 ELSE NthOf(B, n - 1) + 2
        to == IF n = Cardinality(B) + 1 THEN Len(s) ELSE NthOf(B, n) - 1
    IN  SubSeq(s, from, to)

\* a segment without its leading and trailing whitespace
Trimmed(seg) ==
    LET ink == {i \in 1..Len(seg) : ~IsSpace(seg[i])}
    IN  IF ink = {} THEN <<>>
        ELSE SubSeq(seg, CHOOSE i \in ink : \A j \in ink : i <= j,
                         CHOOSE i \in ink : \A j \in ink : j <= i)

\* C10: convert_to_paragraphs yields one <p>...</p> block per segment between
\* blank-line boundaries, in order, separated by single newlines, each block
\* holding exactly its own segment's text trimmed; "A\n\nB" gives <p>A</p> and
\* <p>B</p>.
C10_OneBlockPerSegment ==
    fpc = "done" =>
        LET opens == {i \in 1..Len(fout) : fout[i] = "<p>"}
            closes == {i \in 1..Len(fout) : fout[i] = "</p>"}
            n == Cardinality(BlankLineStarts(fin)) + 1
        IN  /\ Cardinality(opens) = n
            /\ Cardinality(closes) = n
            /\ NthOf(opens, 1) = 1
            /\ NthOf(closes, n) = Len(fout)
            /\ \A k \in 1..n :
                   /\ NthOf(opens, k) < NthOf(closes, k)
                   /\ SubSeq(fout, NthOf(opens, k) + 1, NthOf(closes, k) - 1)
                          = Trimmed(SegmentOf(fin, k))
                   /\ k < n => /\ fout[NthOf(closes, k) + 1] = "\n"
                               /\ NthOf(opens, k + 1) = NthOf(closes, k) + 2
            /\ (fin = <<"A", "\n", "\n", "B">>
                    => fout = <<"<p>", "A", "</p>", "\n", "<p>", "B", "</p>">>)

\* two paragraphs with surrounding whitespace came out as two trimmed blocks
C10_Witness ==
    /\ fpc = "done"
    /\ fin = <<" ", "A", "\n", "\n", "B", "\n">>
    /\ fout = <<"<p>", "A", "</p>", "\n", "<p>", "B", "</p>">>

\* ======================================= one item's comments, parsed and rendered
CommentNodes ==
    [author : {"alice", "bob"},
     content : { <<"hi">>, <<"<b>", "hi", "</b>">>, <<"bob ", FacebookLike>> },
     date : {"2024-01-05 09:30:00", "yesterday"},
     approved : {"1", "0", "spam"},
     complete : BOOLEAN]

CommentInit ==
    /\ PipeIdle /\ FnIdle
    /\ cpc = "parsing" /\ cnodes = <<>> /\ comments = <<>> /\ chtml = <<>>

\* the loop of lines 186-203 takes the item's next comment element
ParseComment ==
    /\ cpc = "parsing"
    /\ Len(cnodes) < MaxComments
    /\ \E node \in CommentNodes :
         LET r == parse_comment(node)
         IN  /\ cnodes' = Append(cnodes, node)
             /\ cpc' = IF r.raised # "" THEN "failed" ELSE "parsing"
             /\ comments' = IF r.raised = "" /\ r.keep
                            THEN Append(comments, r.data) ELSE comments
    /\ UNCHANGED <<chtml, pipeVars, fnVars>>

\* the item has no further comment element
EndOfComments ==
    /\ cpc = "parsing"
    /\ cpc' = "parsed"
    /\ UNCHANGED <<cnodes, comments, chtml, pipeVars, fnVars>>

\* add_content: comments_html = preprocess_comments(item['comments'])
RenderComments ==
    /\ cpc = "parsed"
    /\ chtml' = preprocess_comments(comments)
    /\ cpc' = "rendered"
    /\ UNCHANGED <<cnodes, comments, pipeVars, fnVars>>

CommentNext == ParseComment \/ EndOfComments \/ RenderComments

SpecComments == CommentInit /\ [][CommentNext]_vars

ApprovedNodes(nodes) == SelectSeq(nodes, LAMBDA n : n.approved = "1")

\* the comment renderings in a fragment, and the authors they name
RenderedCount(html) == Len(SelectSeq(html, LAMBDA t : t = CommentOpen))

RenderedAuthors(html) ==
    LET at == {i \in 1..Len(html) : html[i] = CommentOpen}
    IN  [k \in 1..Cardinality(at) |-> html[NthOf(at, k) + 1]]

\* C2: a comment whose approval is not '1' is never in the parsed comment list nor
\* in the rendered HTML: the retained comments are those of approved elements, in
\* order; the rendered comments are at most the approved ones, and exactly the
\* approved ones when no comment element is malformed.
C2_OnlyApprovedComments ==
    LET ok == ApprovedNodes(cnodes)
    IN  /\ Len(comments) <= Len(ok)
        /\ \A i \in 1..Len(comments) :
               /\ comments[i].author = ok[i].author
               /\ comments[i].content = ok[i].content
        /\ RenderedCount(chtml) <= Len(ok)
        /\ cpc \in {"parsing", "parsed", "rendered"} => Len(comments) = Len(ok)
        /\ cpc = "rendered" =>
               /\ RenderedCount(chtml) = Len(ok)
               /\ RenderedAuthors(chtml) = [i \in 1..Len(ok) |-> ok[i].author]

\* a rejected and a spam comment were dropped, the approved one was rendered
C2_Witness ==
    /\ cpc = "rendered"
    /\ Len(cnodes) >= 2
    /\ \E i \in 1..Len(cnodes) : cnodes[i].approved = "spam"
    /\ \E i \in 1..Len(cnodes) : cnodes[i].approved = "1"
    /\ RenderedCount(chtml) = 1

\* C7: preprocess_comments returns the empty string for no retained comments, and
\* for n >= 1 a fragment that starts with the header "Comments (n)" followed by
\* exactly n renderings, in the comments' order.
C7_CommentFragment ==
    cpc = "rendered" =>
        LET n == Len(comments)
            at == {i \in 1..Len(chtml) : chtml[i] = CommentOpen}
        IN  /\ n = 0 => chtml = <<>>
            /\ n >= 1 =>
                 /\ SubSeq(chtml, 1, 3) = <<"<h3>Comments (", ToString(n), ")</h3>">>
                 /\ Cardinality(at) = n
                 /\ NthOf(at, 1) = 4
                 /\ \A k \in 1..n :
                      LET from == NthOf(at, k)
                          to == IF k = n THEN Len(chtml) ELSE NthOf(at, k + 1) - 1
                      IN  /\ chtml[from + 1] = comments[k].author
                          /\ SubSeq(chtml, from, to) = render_comment(comments[k])

\* two retained comments by different authors were rendered under "Comments (2)"
C7_Witness ==
    /\ cpc = "rendered"
    /\ Len(comments) = 2
    /\ comments[1].author # comments[2].author
    /\ chtml[2] = "2"

\* an item without retained comments was rendered to the empty string
C7_WitnessEmpty ==
    /\ cpc = "rendered" /\ comments = <<>> /\ cnodes # <<>> /\ chtml = <<>>

\* ================================================= parse_wxr and create_pdf
\* channel/base_blog_url of the export
base_blog_url == <<"https://example.com">>

\* content:encoded of an item that has one
ItemBody ==
    base_blog_url \o <<"/", Uploads, "2020/01/img", ".jpg", "\n", "\n", "B">>

RejectedComment ==
    [author |-> "alice", content |-> <<"hi">>, date |-> "2024-01-05 09:30:00",
     approved |-> "0", complete |-> TRUE]

ApprovedComment ==
    [author |-> "bob", content |-> <<"<b>", "hi", "</b>">>,
     date |-> "2024-01-05 09:30:00", approved |-> "1", complete |-> TRUE]

BrokenComment ==
    [author |-> "bob", content |-> <<"hi">>, date |-> "2024-01-05 09:30:00",
     approved |-> "1", complete |-> FALSE]

ItemCommentLists == { <<>>, <<RejectedComment, ApprovedComment>>, <<BrokenComment>> }

\* the item elements of an export, each with a content:encoded element; what the
\* loop never reads of an item it passes over is left out
ItemNodes ==
    {n \in [post_type : {NoElement, "post", "page", "attachment"},
            status : {NoElement, "publish", "draft"},
            pubDate : {NoElement, "Fri, 05 Jan 2024 09:30:00 +0000", "yesterday"},
            content : {"body"},
            cnodes : ItemCommentLists] :
        skip_reason(n) # "keep" =>
            n.pubDate = NoElement /\ n.cnodes = <<>>}

\* the title element of the i-th item of the export
TitleOf(i) == <<"T", ToString(i)>>

Init ==
    /\ CmtIdle /\ FnIdle
    /\ pc = "start" /\ error = "" /\ items = <<>> /\ posts = <<>> /\ pages = <<>>
    /\ dates = <<>> /\ date_range = <<>> /\ diag = <<>> /\ page = 0 /\ links = 0
    /\ toc = <<>> /\ sections = <<>> /\ idx = 1 /\ stages = <<>> /\ toc_lines = <<>>
    /\ written = FALSE

pdfVars == <<page, links, toc, sections, idx, toc_lines, written>>
parseVars == <<items, posts, pages, dates, date_range, diag>>

\* line 120: ET.parse(file_path) raises on a document that is not well-formed
ParseFile ==
    /\ pc = "start" /\ error = ""
    /\ \E wellFormed \in BOOLEAN :
         IF wellFormed THEN pc' = "channel" /\ error' = error
         ELSE pc' = pc /\ error' = "ParseError"
    /\ UNCHANGED <<parseVars, pdfVars, stages, cmtVars, fnVars>>

\* lines 124-134: the channel fields and the author map; .text of a missing
\* base_blog_url, author_login or author_display_name raises
ReadChannel ==
    /\ pc = "channel" /\ error = ""
    /\ \E hasBaseUrl \in BOOLEAN, authorsComplete \in BOOLEAN :
         IF hasBaseUrl /\ authorsComplete THEN pc' = "items" /\ error' = error
         ELSE pc' = pc /\ error' = "AttributeError: channel"
    /\ UNCHANGED <<parseVars, pdfVars, stages, cmtVars, fnVars>>

\* lines 140-208: one pass of the loop over the item elements
ParseItem ==
    /\ pc = "items" /\ error = ""
    /\ Len(items) < MaxItems
    /\ \E node \in ItemNodes :
         LET reason == skip_reason(node)
             title == TitleOf(Len(items) + 1)
             d == parse_pub_date(node.pubDate)
             c == parse_comments(node.cnodes)
             post_data == [title |-> title,
                           pub_date |-> d.pub_date,
                           content |-> IF node.content = NoElement THEN <<>> ELSE ItemBody,
                           type |-> node.post_type,
                           comments |-> c.comments]
             raised == IF reason # "keep" THEN ""
                       ELSE IF d.raised # "" THEN d.raised
                       ELSE IF c.raised # "" THEN c.raised ELSE ""
             kept == reason = "keep" /\ raised = ""
         IN  /\ items' = Append(items, node)
             /\ diag' = IF prints_notice(reason)
                        THEN Append(diag, [title |-> title, status |-> node.status])
                        ELSE diag
             /\ dates' = IF reason = "keep" /\ d.dated THEN Append(dates, d.pub_date)
                         ELSE dates
             /\ error' = raised
             /\ posts' = IF kept /\ node.post_type = "post"
                         THEN Append(posts, post_data) ELSE posts
             /\ pages' = IF kept /\ node.post_type = "page"
                         THEN Append(pages, post_data) ELSE pages
    /\ UNCHANGED <<pc, date_range, pdfVars, stages, cmtVars, fnVars>>

\* lines 210-211: the loop is over; the date range is computed and the result returned
ReturnParsed ==
    /\ pc = "items" /\ error = ""
    /\ date_range' = format_date_range(dates)
    /\ stages' = Append(stages, "parse_wxr")
    /\ pc' = "fonts"
    /\ UNCHANGED <<error, items, posts, pages, dates, diag, pdfVars, cmtVars, fnVars>>

\* lines 302-309: add_font raises when a font file is missing
AddFonts ==
    /\ pc = "fonts" /\ error = ""
    /\ \E fontsPresent \in BOOLEAN :
         IF fontsPresent THEN pc' = "title" /\ error' = error
         ELSE pc' = pc /\ error' = "FileNotFoundError: fonts"
    /\ UNCHANGED <<parseVars, pdfVars, stages, cmtVars, fnVars>>

\* line 312: pdf.add_title_page()
AddTitlePage ==
    /\ pc = "title" /\ error = ""
    /\ page' = page + 1
    /\ stages' = Append(stages, "title")
    /\ pc' = "toc"
    /\ UNCHANGED <<error, parseVars, links, toc, sections, idx, toc_lines, written,
                   cmtVars, fnVars>>

\* lines 315-316: a new page, then the placeholder takes TocPages pages
InsertTocPlaceholder ==
    /\ pc = "toc" /\ error = ""
    /\ page' = page + 1 + TocPages
    /\ stages' = Append(stages, "toc")
    /\ pc' = "posts"
    /\ idx' = 1
    /\ UNCHANGED <<error, parseVars, links, toc, sections, toc_lines, written,
                   cmtVars, fnVars>>

\* lines 331-361: one pass of add_content's loop, over posts or over pages.
\* Of the PDF library: add_page starts the next page, page_no() is its number,
\* add_link() hands out the next link handle, the heading cell is drawn on the
\* page just started, and write_html may run over onto further pages.
AddContent(item_type) ==
    /\ pc = (IF item_type = "page" THEN "pages" ELSE "posts") /\ error = ""
    /\ idx <= Len(IF item_type = "page" THEN pages ELSE posts)
    /\ LET item == (IF item_type = "page" THEN pages ELSE posts)[idx]
           full_content == preprocess_content(item.content, base_blog_url)
                               \o preprocess_comments(item.comments)
           started == page + 1
           page_number == started
           link == links + 1
           heading == [title |-> item.title, page |-> started, link |-> link]
       IN  /\ links' = link
           /\ toc' = add_toc_entry(toc, toc_title(item.title, item_type), page_number, link)
           /\ IF item.pub_date = NoElement
              THEN /\ error' = "AttributeError: strftime"
                   /\ page' = started
                   /\ sections' = Append(sections,
                          [heading |-> heading, byline |-> <<>>, html |-> <<>>])
                   /\ idx' = idx
              ELSE /\ error' = error
                   /\ \E extra \in 0..MaxExtraPages : page' = started + extra
                   /\ sections' = Append(sections,
                          [heading |-> heading,
                           byline |-> <<"By ", "Unknown Author", " on ",
                                        ItemDates[item.pub_date].byline>>,
                           html |-> full_content])
                   /\ idx' = idx + 1
    /\ UNCHANGED <<pc, parseVars, stages, toc_lines, written, cmtVars, fnVars>>

\* lines 366-375: the posts are done; the "Pages" divider page, not in the TOC
AddPagesDivider ==
    /\ pc = "posts" /\ error = ""
    /\ idx > Len(posts)
    /\ page' = page + 1
    /\ stages' = stages \o <<"posts", "divider">>
    /\ pc' = "pages"
    /\ idx' = 1
    /\ UNCHANGED <<error, parseVars, links, toc, sections, toc_lines, written,
                   cmtVars, fnVars>>

\* pdf.output(output_path) called as soon as the posts are laid out
OutputBeforePages ==
    /\ pc = "posts" /\ error = ""
    /\ idx > Len(posts)
    /\ toc_lines' = generate_toc(toc)
    /\ written' = TRUE
    /\ stages' = stages \o <<"posts", "output">>
    /\ pc' = "done"
    /\ UNCHANGED <<error, parseVars, page, links, toc, sections, idx, cmtVars, fnVars>>

\* line 380: the pages are done; pdf.output renders the TOC into the reserved
\* pages (generate_toc adds the fixed-width font) and writes the file
Output ==
    /\ pc = "pages" /\ error = ""
    /\ idx > Len(pages)
    /\ \E monoFontPresent \in BOOLEAN, writable \in BOOLEAN :
         IF monoFontPresent /\ writable
         THEN /\ toc_lines' = generate_toc(toc)
              /\ written' = TRUE
              /\ stages' = stages \o <<"pages", "output">>
              /\ pc' = "done"
              /\ error' = error
         ELSE /\ error' = IF monoFontPresent THEN "OSError: output"
                          ELSE "FileNotFoundError: fonts"
              /\ UNCHANGED <<toc_lines, written, stages, pc>>
    /\ UNCHANGED <<parseVars, page, links, toc, sections, idx, cmtVars, fnVars>>

Next ==
    \/ ParseFile
    \/ ReadChannel
    \/ ParseItem
    \/ ReturnParsed
    \/ AddFonts
    \/ AddTitlePage
    \/ InsertTocPlaceholder
    \/ AddContent("post")
    \/ AddPagesDivider
    \/ AddContent("page")
    \/ Output

Spec == Init /\ [][Next]_vars

\* the items of the export that are published posts or pages
IsPublished(node) == node.status = "publish" /\ node.post_type \in {"post", "page"}

PublishedAt(type) ==
    {i \in 1..Len(items) : IsPublished(items[i]) /\ items[i].post_type = type}

\* parse_wxr has returned its result
ParseReturned == pc \notin {"start", "channel", "items"}

\* C1: when parse_wxr returns, len(posts) + len(pages) is the number of item
\* elements whose status is "publish" and whose type is "post" or "page": each of
\* them is in posts or pages, in document order, and nothing else is.
C1_PublishedItemsKept ==
    (ParseReturned \/ error = "") =>
        /\ Len(posts) + Len(pages)
               = Cardinality({i \in 1..Len(items) : IsPublished(items[i])})
        /\ \A k \in 1..Len(posts) :
               posts[k].title = TitleOf(NthOf(PublishedAt("post"), k))
        /\ \A k \in 1..Len(pages) :
               pages[k].title = TitleOf(NthOf(PublishedAt("page"), k))

\* a draft, a published post and a published page were read: one post, one page
C1_Witness ==
    /\ ParseReturned
    /\ Len(items) = 3
    /\ \E i \in 1..3 : items[i].status = "draft"
    /\ Len(posts) = 1 /\ Len(pages) = 1

\* the titles add_content registers, for the items laid out so far
ExpectedTocTitles ==
    [k \in 1..Len(posts) |-> posts[k].title]
        \o [k \in 1..Len(pages) |-> toc_title(pages[k].title, "page")]

\* C3: the TOC entries are, in registration order, one per post in posts order,
\* then one per page in pages order with the title prefixed "Page: ", none for the
\* divider; each entry's page number is the page started for its item, on which
\* the heading is rendered; page numbers do not decrease along the list.
C3_TocFollowsSections ==
    /\ Len(toc) = Len(sections)
    /\ Len(toc) <= Len(ExpectedTocTitles)
    /\ \A k \in 1..Len(toc) :
           /\ toc[k].title = ExpectedTocTitles[k]
           /\ toc[k].page_number = sections[k].heading.page
           /\ toc[k].link = sections[k].heading.link
           /\ sections[k].heading.title
                  = (IF k <= Len(posts) THEN posts[k] ELSE pages[k - Len(posts)]).title
           /\ toc[k].page_number <= page
           /\ k > 1 => toc[k - 1].page_number < toc[k].page_number
    /\ (pc = "pages" /\ Len(toc) > Len(posts) /\ Len(posts) > 0) =>
           toc[Len(posts) + 1].page_number > toc[Len(posts)].page_number + 1
    /\ pc = "done" =>
           /\ Len(toc) = Len(ExpectedTocTitles)
           /\ Len(toc_lines) = Len(toc)
           /\ \A k \in 1..Len(toc) : toc_lines[k].page_number = toc[k].page_number

\* a document of two posts and a page was written, a post running over a page
C3_Witness ==
    /\ pc = "done"
    /\ Len(posts) = 2 /\ Len(pages) = 1
    /\ toc[2].page_number = toc[1].page_number + 2
    /\ toc[3].title = <<"P", "a", "g", "e", ":", " ", "T", "3">>

\* C4 (as stated): a retained item whose pubDate is missing or unparseable is
\* still laid out and makes neither parse_wxr nor create_pdf fail.
C4_TimestampNeverAborts ==
    /\ error \notin {"ValueError: strptime", "AttributeError: strftime"}
    /\ pc = "done" =>
           \A i \in 1..Len(items) :
               IsPublished(items[i]) =>
                   \E k \in 1..Len(sections) : sections[k].heading.title = TitleOf(i)

\* C8: the output document is written only as the last step, after the title
\* page, the TOC reservation, every post, the divider and every page; a run in
\* which a stage failed writes no document.
C8_AllOrNothing ==
    /\ written =>
           /\ pc = "done"
           /\ error = ""
           /\ stages = <<"parse_wxr", "title", "toc", "posts", "divider", "pages", "output">>
           /\ Len(sections) = Len(posts) + Len(pages)
           /\ \A k \in 1..Len(sections) : sections[k].byline # <<>>
    /\ error # "" => ~written
    /\ pc = "done" => written

\* a document of a post and a page was written
C8_Witness ==
    /\ written /\ Len(posts) >= 1 /\ Len(pages) >= 1

\* a run aborted in the middle of the pages, and nothing was written
C8_WitnessAbort ==
    /\ error = "AttributeError: strftime" /\ pc = "pages" /\ Len(sections) >= 2
    /\ ~written

\* the items the loop passed over
SkippedItems == {i \in 1..Len(items) : ~IsPublished(items[i])}

NoticeTitles == [k \in 1..Len(diag) |-> diag[k].title]

\* C9 (as stated): every item parse_wxr leaves out, for its status or for its
\* type, produces a diagnostic line naming its title, and no retained item does.
C9_EverySkipNoticed ==
    /\ Len(diag) = Cardinality(SkippedItems)
    /\ \A k \in 1..Len(diag) : diag[k].title = TitleOf(NthOf(SkippedItems, k))

\* the items left out although they are posts or pages: their status is not "publish"
UnpublishedItems ==
    {i \in 1..Len(items) :
        /\ items[i].post_type \in {"post", "page"}
        /\ items[i].status \notin {NoElement, "publish"}}

\* C9 (amended): every post or page that parse_wxr leaves out because its status
\* is not "publish" produces a diagnostic line naming its title and status, in
\* document order; an item left out for its type, or for a missing type or status
\* element, produces none; and no retained item does.
C9_UnpublishedNoticed ==
    /\ Len(diag) = Cardinality(UnpublishedItems)
    /\ \A k \in 1..Len(diag) :
           /\ diag[k].title = TitleOf(NthOf(UnpublishedItems, k))
           /\ diag[k].status = items[NthOf(UnpublishedItems, k)].status

\* a draft page, an attachment and a published post were read: one line, the draft's
C9_Witness ==
    /\ ParseReturned
    /\ Len(items) = 3
    /\ items[1].post_type = "page" /\ items[1].status = "draft"
    /\ items[2].post_type = "attachment"
    /\ IsPublished(items[3])
    /\ NoticeTitles = <<TitleOf(1)>>

====
